---- MODULE Spec2Model ----
(***************************************************************************)
(* Permission-gated SQL execution core of snowflake-mcp:                   *)
(*   - statement classification and authorization (tools/sql.py)           *)
(*   - the run_snowflake_query tool and run_query (tools/sql.py)           *)
(*   - the connection manager and its scoped cursor acquisition            *)
(*     (core/connection.py)                                                *)
(*   - the server lifespan that builds the service and registers the tool  *)
(*     (server.py)                                                         *)
(* SQL text, statement-type tags and class names are sequences of          *)
(* one-character strings, so that strip(), upper(), lower() and            *)
(* startswith() are computed and not assumed.                              *)
(***************************************************************************)
EXTENDS Integers, Sequences, FiniteSets, TLC

(***************************************************************************)
(* Bounds of the model.                                                    *)
(***************************************************************************)
\* longest allowed / disallowed list enumerated for the policy
MaxList == 2
\* most whitespace characters put in front of a statement
MaxPad == 1
\* run_snowflake_query invocations the dispatcher may start
NumCalls == 2

(***************************************************************************)
(* Python str methods used by the classifier.                              *)
(***************************************************************************)
Lowers ==
  <<"a","b","c","d","e","f","g","h","i","j","k","l","m",
    "n","o","p","q","r","s","t","u","v","w","x","y","z">>

Uppers ==
  <<"A","B","C","D","E","F","G","H","I","J","K","L","M",
    "N","O","P","Q","R","S","T","U","V","W","X","Y","Z">>

Whitespace == {" ", "\t", "\n"}

ToUpper(c) ==
  IF \E i \in 1..26 : Lowers[i] = c
    THEN Uppers[CHOOSE i \in 1..26 : Lowers[i] = c]
    ELSE c

ToLower(c) ==
  IF \E i \in 1..26 : Uppers[i] = c
    THEN Lowers[CHOOSE i \in 1..26 : Uppers[i] = c]
    ELSE c

upper(s) == [i \in 1..Len(s) |-> ToUpper(s[i])]

lower(s) == [i \in 1..Len(s) |-> ToLower(s[i])]

RECURSIVE lstrip(_)
lstrip(s) ==
  IF s # <<>> /\ Head(s) \in Whitespace THEN lstrip(Tail(s)) ELSE s

RECURSIVE rstrip(_)
rstrip(s) ==
  IF s # <<>> /\ s[Len(s)] \in Whitespace
    THEN rstrip(SubSeq(s, 1, Len(s) - 1))
    ELSE s

strip(s) == rstrip(lstrip(s))

startswith(s, p) == Len(s) >= Len(p) /\ SubSeq(s, 1, Len(p)) = p

\* x in l, for a Python list l
InList(x, l) == \E i \in 1..Len(l) : l[i] = x

(***************************************************************************)
(* Keywords, class names of the parser's AST and statement-type tags.      *)
(***************************************************************************)
kwSHOW     == <<"S","H","O","W">>
kwDESCRIBE == <<"D","E","S","C","R","I","B","E">>
kwDESC     == <<"D","E","S","C">>
kwUSE      == <<"U","S","E">>
kwEXPLAIN  == <<"E","X","P","L","A","I","N">>
kwGRANT    == <<"G","R","A","N","T">>
kwREVOKE   == <<"R","E","V","O","K","E">>
kwSET      == <<"S","E","T">>
kwCALL     == <<"C","A","L","L">>
kwSELECT   == <<"S","E","L","E","C","T">>
kwDROP     == <<"D","R","O","P">>

clsSelect   == <<"S","e","l","e","c","t">>
clsDrop     == <<"D","r","o","p">>
clsShow     == <<"S","h","o","w">>
clsDescribe == <<"D","e","s","c","r","i","b","e">>
clsUse      == <<"U","s","e">>
clsSet      == <<"S","e","t">>
clsGrant    == <<"G","r","a","n","t">>
clsCommand  == <<"C","o","m","m","a","n","d">>
clsUnknown  == <<"U","n","k","n","o","w","n">>

tagAll      == <<"a","l","l">>
tagUnknown  == <<"u","n","k","n","o","w","n">>
tagCommand  == <<"c","o","m","m","a","n","d">>
tagSelect   == <<"s","e","l","e","c","t">>
tagDrop     == <<"d","r","o","p">>
tagShow     == <<"s","h","o","w">>
tagDescribe == <<"d","e","s","c","r","i","b","e">>
tagUse      == <<"u","s","e">>
tagExplain  == <<"e","x","p","l","a","i","n">>
tagGrant    == <<"g","r","a","n","t">>
tagRevoke   == <<"r","e","v","o","k","e">>
tagSet      == <<"s","e","t">>
tagCall     == <<"c","a","l","l">>

(***************************************************************************)
(* Results of a Python call: a returned value or a raised exception.       *)
(***************************************************************************)
Return(v) == [kind |-> "return", value |-> v, exc |-> ""]

Raise(e) == [kind |-> "raise", value |-> <<>>, exc |-> e]

(***************************************************************************)
(* sqlglot.parse_one, the external parser called at tools/sql.py:91.  The  *)
(* tokenizer fails with TokenError (not a ParseError) on an unterminated   *)
(* string literal; otherwise the root node of the FIRST statement is       *)
(* returned, and its class follows the statement's leading keyword.  For   *)
(* keywords whose treatment depends on dialect and library version the     *)
(* parser may give the generic Command node or a class of its own; text    *)
(* with no known leading keyword gives Command or a ParseError.            *)
(***************************************************************************)
IsLetter(c) == \E i \in 1..26 : Lowers[i] = c \/ Uppers[i] = c

RECURSIVE FirstStatement(_)
FirstStatement(sql) ==
  IF sql = <<>> \/ Head(sql) = ";"
    THEN <<>>
    ELSE <<Head(sql)>> \o FirstStatement(Tail(sql))

RECURSIVE LeadingLetters(_)
LeadingLetters(s) ==
  IF s # <<>> /\ IsLetter(Head(s))
    THEN <<Head(s)>> \o LeadingLetters(Tail(s))
    ELSE <<>>

FirstWord(sql) == upper(LeadingLetters(lstrip(FirstStatement(sql))))

QuoteCount(sql) == Cardinality({i \in 1..Len(sql) : sql[i] = "'"})

Ast(cls) == [kind |-> "ast", name |-> cls]

ParseError == [kind |-> "ParseError", name |-> <<>>]

TokenError == [kind |-> "TokenError", name |-> <<>>]

ParserOutcomes(sql) ==
  LET w == FirstWord(sql) IN
  IF QuoteCount(sql) % 2 = 1 THEN {TokenError}
  ELSE IF w = <<>> THEN {ParseError}
  ELSE IF w = kwSELECT THEN {Ast(clsSelect)}
  ELSE IF w = kwDROP THEN {Ast(clsDrop)}
  ELSE IF w = kwSHOW THEN {Ast(clsCommand), Ast(clsShow)}
  ELSE IF w \in {kwDESCRIBE, kwDESC} THEN {Ast(clsCommand), Ast(clsDescribe)}
  ELSE IF w = kwUSE THEN {Ast(clsCommand), Ast(clsUse)}
  ELSE IF w = kwSET THEN {Ast(clsCommand), Ast(clsSet)}
  ELSE IF w = kwGRANT THEN {Ast(clsCommand), Ast(clsGrant)}
  ELSE {Ast(clsCommand), ParseError}

(***************************************************************************)
(* tools/sql.py: classification and authorization.                         *)
(***************************************************************************)
\* get_statement_type: parse_result is what sqlglot.parse_one(sql_string)
\* did; only sqlglot.errors.ParseError is caught.
get_statement_type(parse_result) ==
  IF parse_result.kind = "ast" THEN Return(parse_result.name)
  ELSE IF parse_result.kind = "ParseError" THEN Return(clsUnknown)
  ELSE Raise(parse_result.kind)

map_statement_type_to_config_nostrip(sql_string, statement_type) ==
  LET statement_lower == lower(statement_type)
      sql_upper == upper(sql_string)
  IN IF statement_lower = tagCommand \/ statement_lower = tagUnknown
       THEN IF startswith(sql_upper, kwSHOW) THEN tagShow
            ELSE IF startswith(sql_upper, kwDESCRIBE)
                    \/ startswith(sql_upper, kwDESC) THEN tagDescribe
            ELSE IF startswith(sql_upper, kwUSE) THEN tagUse
            ELSE IF startswith(sql_upper, kwEXPLAIN) THEN tagExplain
            ELSE IF startswith(sql_upper, kwGRANT) THEN tagGrant
            ELSE IF startswith(sql_upper, kwREVOKE) THEN tagRevoke
            ELSE IF startswith(sql_upper, kwSET) THEN tagSet
            ELSE IF startswith(sql_upper, kwCALL) THEN tagCall
            ELSE tagUnknown
       ELSE statement_lower

map_statement_type_to_config(sql_string, statement_type) ==
  LET statement_lower == lower(statement_type)
      sql_upper == upper(strip(sql_string))
  IN IF statement_lower = tagCommand \/ statement_lower = tagUnknown
       THEN IF startswith(sql_upper, kwSHOW) THEN tagShow
            ELSE IF startswith(sql_upper, kwDESCRIBE)
                    \/ startswith(sql_upper, kwDESC) THEN tagDescribe
            ELSE IF startswith(sql_upper, kwUSE) THEN tagUse
            ELSE IF startswith(sql_upper, kwEXPLAIN) THEN tagExplain
            ELSE IF startswith(sql_upper, kwGRANT) THEN tagGrant
            ELSE IF startswith(sql_upper, kwREVOKE) THEN tagRevoke
            ELSE IF startswith(sql_upper, kwSET) THEN tagSet
            ELSE IF startswith(sql_upper, kwCALL) THEN tagCall
            ELSE tagUnknown
       ELSE statement_lower

Authorize_disallow_first(statement_type, sql_allow_list, sql_disallow_list) ==
  IF InList(statement_type, sql_disallow_list) THEN FALSE
  ELSE IF InList(tagAll, sql_allow_list) THEN TRUE
  ELSE IF InList(statement_type, sql_allow_list) THEN TRUE
  ELSE FALSE

Authorize_allow_first(statement_type, sql_allow_list, sql_disallow_list) ==
  IF InList(tagAll, sql_allow_list) THEN TRUE
  ELSE IF InList(statement_type, sql_allow_list) THEN TRUE
  ELSE IF InList(statement_type, sql_disallow_list) THEN FALSE
  ELSE FALSE

Authorize_default_allow(statement_type, sql_allow_list, sql_disallow_list) ==
  IF InList(tagAll, sql_allow_list) THEN TRUE
  ELSE IF InList(statement_type, sql_disallow_list) THEN FALSE
  ELSE IF InList(statement_type, sql_allow_list) THEN TRUE
  ELSE IF statement_type = tagUnknown /\ InList(tagUnknown, sql_allow_list)
    THEN TRUE
  ELSE IF Len(sql_allow_list) = 0 /\ Len(sql_disallow_list) = 0 THEN FALSE
  ELSE TRUE

\* the precedence chain of validate_sql_type (tools/sql.py:145-163)
Authorize(statement_type, sql_allow_list, sql_disallow_list) ==
  IF InList(tagAll, sql_allow_list) THEN TRUE
  ELSE IF InList(statement_type, sql_disallow_list) THEN FALSE
  ELSE IF InList(statement_type, sql_allow_list) THEN TRUE
  ELSE IF statement_type = tagUnknown /\ InList(tagUnknown, sql_allow_list)
    THEN TRUE
  ELSE IF Len(sql_allow_list) = 0 /\ Len(sql_disallow_list) = 0 THEN FALSE
  ELSE FALSE

\* validate_sql_type: a raised parser failure propagates to the caller
validate_sql_type(sql_string, parse_result, sql_allow_list, sql_disallow_list) ==
  LET raw_statement_type == get_statement_type(parse_result) IN
  IF raw_statement_type.kind = "raise" THEN raw_statement_type
  ELSE LET statement_type ==
             map_statement_type_to_config(sql_string, raw_statement_type.value)
       IN Return(<<statement_type,
                   Authorize(statement_type, sql_allow_list, sql_disallow_list)>>)

(***************************************************************************)
(* core/connection.py: connection parameters.  A dict of parameters is a   *)
(* function on the keys; a key is absent, holds None, or holds a str.      *)
(***************************************************************************)
Absent == [tag |-> "absent", s |-> <<>>]

None == [tag |-> "none", s |-> <<>>]

Str(s) == [tag |-> "str", s |-> s]

\* bool(v) of a dict value
Truthy(v) == v.tag = "str" /\ v.s # <<>>

ParamKeys ==
  {"account", "user", "password", "token", "authenticator", "private_key",
   "private_key_file", "private_key_pwd", "passcode", "host",
   "connection_name"}

EmptyDict == [k \in ParamKeys |-> Absent]

\* k in d
has(d, k) == d[k].tag # "absent"

\* d.get(k, default); d.get(k) is get(d, k, None)
get(d, k, default) == IF has(d, k) THEN d[k] ELSE default

\* d.pop(k, None), the value dropped
pop(d, k) == [d EXCEPT ![k] = Absent]

\* d[k] = v
put(d, k, v) == [d EXCEPT ![k] = v]

DropNone_keeps_all(d) == d

\* {k: v for k, v in d.items() if v is not None}
DropNone(d) == [k \in ParamKeys |-> IF d[k].tag = "none" THEN Absent ELSE d[k]]

\* sub in s
contains(s, sub) ==
  \E i \in 1..(Len(s) - Len(sub) + 1) : SubSeq(s, i, i + Len(sub) - 1) = sub

authExternalBrowser == <<"e","x","t","e","r","n","a","l","b","r","o","w","s","e","r">>

authOAuth == <<"o","a","u","t","h">>

authSnowflake == <<"s","n","o","w","f","l","a","k","e">>

authMfa == <<"u","s","e","r","n","a","m","e","_","p","a","s","s","w","o","r","d","_","m","f","a">>

prefixHttps == <<"h","t","t","p","s",":","/","/">>

oktaDomain == <<".","o","k","t","a",".","c","o","m">>

authOkta == <<"h","t","t","p","s",":","/","/","a",".","o","k","t","a",".","c","o","m">>

authOktaHttp == <<"h","t","t","p",":","/","/","a",".","o","k","t","a",".","c","o","m">>

authOtherUrl == <<"h","t","t","p","s",":","/","/","a",".","b",".","c","o","m">>

authCustom == <<"c","u","s","t","o","m">>

authOAuthUpper == <<"O","A","U","T","H">>

PopPrivateKeys(d) ==
  pop(pop(pop(d, "private_key"), "private_key_file"), "private_key_pwd")

PrepareExternalBrowser_keeps_passphrase(connection_params) ==
  pop(pop(pop(connection_params, "password"), "private_key"),
      "private_key_file")

\* authenticator == "externalbrowser" (connection.py:144-150)
PrepareExternalBrowser(connection_params) ==
  PopPrivateKeys(pop(connection_params, "password"))

PrepareOAuth_keeps_password(connection_params) ==
  PopPrivateKeys(
    IF has(connection_params, "password")
         /\ ~Truthy(get(connection_params, "token", None))
      THEN put(connection_params, "token", connection_params["password"])
      ELSE connection_params)

\* authenticator == "oauth" (connection.py:153-161)
PrepareOAuth(connection_params) ==
  PopPrivateKeys(
    IF has(connection_params, "password")
         /\ ~Truthy(get(connection_params, "token", None))
      THEN pop(put(connection_params, "token", connection_params["password"]),
               "password")
      ELSE connection_params)

\* connection_params.get("private_key") or .get("private_key_file")
IsKeyPair(connection_params) ==
  \/ Truthy(get(connection_params, "private_key", None))
  \/ Truthy(get(connection_params, "private_key_file", None))

PrepareKeyPair_keeps_password(connection_params) ==
  put(connection_params, "authenticator", Str(authSnowflake))

\* key pair authentication (connection.py:164-168)
PrepareKeyPair(connection_params) ==
  put(pop(connection_params, "password"), "authenticator", Str(authSnowflake))

\* authenticator.startswith("https://") and ".okta.com" in authenticator
IsOkta(authenticator) ==
  /\ startswith(authenticator.s, prefixHttps)
  /\ contains(authenticator.s, oktaDomain)

\* Okta (connection.py:179-183)
PrepareOkta(connection_params) == PopPrivateKeys(connection_params)

\* the elif chain of _prepare_connection_params: the dict it has built
\* when it reaches its return statement
SelectedParams(connection_params) ==
  LET authenticator ==
        get(connection_params, "authenticator", Str(authSnowflake))
  IN    IF authenticator = Str(authExternalBrowser)
          THEN PrepareExternalBrowser(connection_params)
        ELSE IF authenticator = Str(authOAuth)
          THEN PrepareOAuth(connection_params)
        ELSE IF IsKeyPair(connection_params)
          THEN PrepareKeyPair(connection_params)
        ELSE IF authenticator = Str(authSnowflake) \/ ~Truthy(authenticator)
          THEN connection_params
        ELSE IF authenticator = Str(authMfa)
          THEN connection_params
        ELSE IF IsOkta(authenticator)
          THEN PrepareOkta(connection_params)
        ELSE connection_params

\* SnowflakeConnectionManager._prepare_connection_params: what it returns
_prepare_connection_params(connection_params) ==
  DropNone(SelectedParams(connection_params))

StoredAfterPrepare_no_copy(connection_params) ==
  SelectedParams(connection_params)

\* self.connection_params after _prepare_connection_params ran: the method
\* works on self.connection_params.copy() (connection.py:140), so the pops
\* and assignments do not reach the stored dict
StoredAfterPrepare(connection_params) == connection_params

\* what the process environment holds: SNOWFLAKE_HOST, SNOWFLAKE_ACCOUNT,
\* the token get_spcs_container_token() gives and
\* SNOWFLAKE_DEFAULT_CONNECTION_NAME; None is an unset variable
Env(host, account, token, default_name) ==
  [host |-> host, account |-> account, token |-> token,
   default_name |-> default_name]

\* the parameters built inside the container runtime (connection.py:94-102)
SpcsParams(env) ==
  DropNone([EmptyDict EXCEPT !["host"] = env.host,
                             !["account"] = env.account,
                             !["token"] = env.token,
                             !["authenticator"] = Str(authOAuth)])

ResolveParams_ignores_container(is_spcs_container, connection_params, env) ==
  _prepare_connection_params(connection_params)

\* if self._is_spcs_container: ... else: self._prepare_connection_params()
ResolveParams(is_spcs_container, connection_params, env) ==
  IF is_spcs_container
    THEN SpcsParams(env)
    ELSE _prepare_connection_params(connection_params)

\* os.getenv(name, default) for a variable holding value
getenv(value, default) == IF value = None THEN default ELSE value

nameDefault == <<"d","e","f","a","u","l","t">>

WithDefaultConnection_never(connection_params, env) == connection_params

\* if not connection_params: the named default connection
WithDefaultConnection(connection_params, env) ==
  IF connection_params = EmptyDict
    THEN put(EmptyDict, "connection_name",
             getenv(env.default_name, Str(nameDefault)))
    ELSE connection_params

(***************************************************************************)
(* The query tag and its JSON encoding (json.dumps), as a sequence of      *)
(* tokens of the text.                                                     *)
(***************************************************************************)
tag_major_version == 1

tag_minor_version == 0

JStr(k, s) == [k |-> k, kind |-> "str", s |-> s, n |-> 0, sub |-> <<>>]

JInt(k, n) == [k |-> k, kind |-> "int", s |-> "", n |-> n, sub |-> <<>>]

JObj(k, sub) == [k |-> k, kind |-> "obj", s |-> "", n |-> 0, sub |-> sub]

\* query_tag = {"origin": "sf_sit", "name": "mcp_server_minimal"}
query_tag == <<JStr("origin", "sf_sit"), JStr("name", "mcp_server_minimal")>>

Quoted(s) == <<"\"", s, "\"">>

RECURSIVE json_dumps(_)
RECURSIVE JsonMembers(_)
JsonValue(e) ==
  IF e.kind = "str" THEN Quoted(e.s)
  ELSE IF e.kind = "int" THEN <<ToString(e.n)>>
  ELSE json_dumps(e.sub)

JsonMembers(obj) ==
  IF obj = <<>> THEN <<>>
  ELSE Quoted(Head(obj).k) \o <<": ">> \o JsonValue(Head(obj))
         \o (IF Tail(obj) = <<>> THEN <<>>
             ELSE <<", ">> \o JsonMembers(Tail(obj)))

json_dumps(obj) == <<"{">> \o JsonMembers(obj) \o <<"}">>

\* session parameters: None, or a dict holding QUERY_TAG
NoSession == [present |-> FALSE, QUERY_TAG |-> <<>>]

\* SnowflakeConnectionManager.get_query_tag_param
get_query_tag_param ==
  [present |-> TRUE,
   QUERY_TAG |->
     json_dumps(query_tag \o
                <<JObj("version", <<JInt("major", tag_major_version),
                                    JInt("minor", tag_minor_version)>>)>>)]

\* session_parameters.update(query_tag_params), or query_tag_params when
\* no session parameters were given (connection.py:85-89)
MergeSession(session_parameters, query_tag_params) ==
  IF session_parameters.present
    THEN IF query_tag_params.present
           THEN [session_parameters EXCEPT
                   !.QUERY_TAG = query_tag_params.QUERY_TAG]
           ELSE session_parameters
    ELSE query_tag_params

ConnectArgs(params, session, keep_alive) ==
  [params |-> params, session |-> session, keep_alive |-> keep_alive]

PersistentConnectArgs_no_keep_alive(is_spcs_container, connection_params, env, session_parameters) ==
  ConnectArgs(
    WithDefaultConnection(
      ResolveParams(is_spcs_container, connection_params, env), env),
    MergeSession(session_parameters, get_query_tag_param),
    FALSE)

\* the arguments of connect() in _get_persistent_connection
\* (connection.py:83-121)
PersistentConnectArgs(is_spcs_container, connection_params, env, session_parameters) ==
  ConnectArgs(
    WithDefaultConnection(
      ResolveParams(is_spcs_container, connection_params, env), env),
    MergeSession(session_parameters, get_query_tag_param),
    TRUE)

\* the arguments of connect() in get_connection (connection.py:245-264)
LazyConnectArgs(is_spcs_container, connection_params, env, session_parameters) ==
  ConnectArgs(
    IF is_spcs_container THEN SpcsParams(env) ELSE connection_params,
    session_parameters,
    FALSE)

(***************************************************************************)
(* Inputs.                                                                 *)
(***************************************************************************)
\* 0..n whitespace characters
Pads == {<<>>} \cup {[i \in 1..n |-> " "] : n \in 1..MaxPad}
          \cup {[i \in 1..n |-> "\n"] : n \in 1..MaxPad}

\* leading words of the statements, in the spellings a caller may use
Heads ==
  { kwSHOW, <<"s","h","o","w">>, <<"S","h","o","w">>,
    kwDESCRIBE, kwDESC, <<"d","e","s","c">>,
    kwUSE, <<"u","s","e","r">>, kwEXPLAIN, kwGRANT, kwREVOKE,
    kwSET, <<"s","e","t","u","p">>, kwCALL,
    kwSELECT, <<"s","e","l","e","c","t">>, kwDROP,
    <<"F","O","O">>, <<>> }

\* what follows the leading word
Tails ==
  { <<>>, <<" ","x">>, <<" ","x"," ">>, <<" ","'","x">>,
    <<" ","1",";","D","R","O","P"," ","t">> }

\* texts given to the classifier
Texts == {p \o h \o t : p \in Pads, h \in Heads, t \in Tails}

sqlSelect     == kwSELECT \o <<" ","1">>
sqlDrop       == kwDROP \o <<" ","T","A","B","L","E"," ","t">>
sqlShow       == kwSHOW \o <<" ","T","A","B","L","E","S">>
sqlSelectDrop == sqlSelect \o <<";">> \o sqlDrop
sqlFoo        == <<"F","O","O">>

\* statements a client sends to run_snowflake_query
CallTexts == {sqlSelect, sqlDrop, sqlSelectDrop}

\* entries of the allowed / disallowed lists
PolicyTags == {tagAll, tagSelect, tagDrop, tagUnknown}

Lists == UNION {[1..n -> PolicyTags] : n \in 0..MaxList}

\* config objects: None, or a ServerConfig with its permissions
NoConfig == [present |-> FALSE, allowed |-> <<>>, disallowed |-> <<>>]

Config(a, d) == [present |-> TRUE, allowed |-> a, disallowed |-> d]

ScenarioPolicy == Config(<<tagSelect, tagShow>>, <<tagDrop>>)

\* policies a configuration file may hold
ConfigFiles ==
  { ScenarioPolicy }

(***************************************************************************)
(* State.                                                                  *)
(***************************************************************************)
VARIABLES
  inp,         \* arguments of a function called on its own
  out,         \* what that call returned or raised
  manager,     \* SnowflakeConnectionManager: connection_params, _is_spcs_container
  life,        \* create_snowflake_service: position, local connection, error
  config,      \* SnowflakeService.config
  tool,        \* run_query_tool as registered: the config its closure holds
  connection,  \* SnowflakeConnectionManager.connection (0 is None)
  conns,       \* connections opened through connect(), by identity
  cursors,     \* cursors created through connection.cursor(), by creator
  dbLog,       \* statements passed to cursor.execute
  cleanups,    \* calls of SnowflakeConnectionManager.cleanup
  calls        \* run_snowflake_query invocations

fnVars == <<inp, out>>

svcVars == <<manager, life, config, tool, connection, conns, cursors, dbLog,
             cleanups, calls>>

vars == <<inp, out, manager, life, config, tool, connection, conns, cursors, dbLog,
          cleanups, calls>>

Calls == 1..NumCalls

\* Identities of connections: the one opened at construction, and the one
\* a get_connection call opens, named after the call.  0 stands for None.
InitConn == NumCalls + 1

ConnIds == 1..(NumCalls + 1)

NoConn ==
  [state |-> "none", params |-> EmptyDict, session |-> NoSession,
   keep_alive |-> FALSE, verified |-> FALSE, via |-> "none", closes |-> 0]

\* the manager before its construction
NoManager == [connection_params |-> EmptyDict, is_spcs_container |-> FALSE]

\* connection parameters the server is started with: an external browser
\* login that also carries a password and a private key
ServiceParams ==
  { [EmptyDict EXCEPT !["account"] = Str(<<"a">>),
                      !["user"] = Str(<<"u">>),
                      !["password"] = Str(<<"p">>),
                      !["authenticator"] = Str(authExternalBrowser),
                      !["private_key"] = Str(<<"k">>)] }

\* is_running_in_spcs_container() for the server process: it is started
\* outside the container runtime
ServiceContainer == {FALSE}

\* the environment of the server process
ServiceEnvs ==
  { Env(Str(<<"h">>), Str(<<"a">>), Str(<<"t">>), Str(<<"d">>)) }

\* a cursor is named after the call whose get_connection scope created it
NoCursor == [conn |-> 0, closes |-> 0]

(***************************************************************************)
(* What an invocation gives back to the dispatcher.                        *)
(***************************************************************************)
NoResult ==
  [kind |-> "none", tool |-> "", status |-> 0, stype |-> <<>>, cause |-> <<>>]

Rows ==
  [kind |-> "rows", tool |-> "", status |-> 0, stype |-> <<>>, cause |-> <<>>]

\* SnowflakeException(tool, message, status_code); of the message the
\* statement type it names (403) and the text that follows its fixed
\* beginning (500) are kept
SnowflakeException(t, code, stype, cause) ==
  [kind |-> "SnowflakeException", tool |-> t, status |-> code,
   stype |-> stype, cause |-> cause]

\* an exception that is not a SnowflakeException, as raised
RawException(name) ==
  [kind |-> name, tool |-> "", status |-> 0, stype |-> <<>>, cause |-> <<>>]

IdleCall ==
  [pc |-> "idle", sql |-> <<>>, parsed |-> ParseError, cur |-> 0, con |-> 0,
   pending |-> "none", result |-> NoResult, scopes |-> 0, opened |-> 0,
   execs |-> 0]

(***************************************************************************)
(* Initial state: nothing constructed, no request made.                    *)
(***************************************************************************)
NoInput ==
  [sql |-> <<>>, parsed |-> ParseError, allowed |-> <<>>, disallowed |-> <<>>]

NoOutput == [kind |-> "none", value |-> <<<<>>, FALSE>>, exc |-> ""]

InitService ==
  /\ manager = NoManager
  /\ life = [pc |-> "start", conn |-> 0, error |-> "none", service |-> FALSE]
  /\ config = NoConfig
  /\ tool = [registered |-> FALSE, via |-> "none", config |-> NoConfig]
  /\ connection = 0
  /\ conns = [i \in ConnIds |-> NoConn]
  /\ cursors = [c \in Calls |-> NoCursor]
  /\ dbLog = {}
  /\ cleanups = 0
  /\ calls = [c \in Calls |-> IdleCall]

Init ==
  /\ inp = NoInput
  /\ out = NoOutput
  /\ InitService

(***************************************************************************)
(* server.py: create_snowflake_service, the lifespan of the server.        *)
(***************************************************************************)
\* an exception that leaves the lifespan before its try statement
Fail(e) == [life EXCEPT !.pc = "failed", !.error = e]

CleansUp_never(service) == FALSE

\* finally: if snowflake_service is not None: snowflake_service.cleanup()
CleansUp(service) == service

\* the try statement of the lifespan is left with e ("none": the server
\* stopped): the except clause re-raises, the finally clause runs
Finally(e) ==
  [life EXCEPT !.error = e,
               !.pc = IF CleansUp(life.service) THEN "cleanup"
                      ELSE IF e = "none" THEN "stopped" ELSE "failed"]

At(p) == [life EXCEPT !.pc = p]

\* get_var gives no configuration path: ConfigurationError (server.py:119)
LifespanStart ==
  /\ life.pc = "start"
  /\ \E given \in BOOLEAN :
       life' = IF given THEN At("config") ELSE Fail("ConfigurationError")
  /\ UNCHANGED <<manager, inp, out, config, tool, connection, conns, cursors, dbLog,
                 cleanups, calls>>

\* SnowflakeService.__init__: load_config_from_file (server.py:50)
LoadConfig_deferred ==
  /\ life.pc = "config"
  /\ config' = config
  /\ life' = At("manager")
  /\ UNCHANGED <<manager, inp, out, tool, connection, conns, cursors, dbLog, cleanups, calls>>

LoadConfig ==
  /\ life.pc = "config"
  /\ \/ \E f \in ConfigFiles : config' = f /\ life' = At("manager")
     \/ config' = config /\ life' = Finally("ConfigurationError")
  /\ UNCHANGED <<manager, inp, out, tool, connection, conns, cursors, dbLog, cleanups, calls>>

\* SnowflakeConnectionManager.__init__: the parameters are stored and the
\* environment is detected (connection.py:38-46)
ManagerInit ==
  /\ life.pc = "manager"
  /\ \E cp \in ServiceParams : \E spcs \in ServiceContainer :
       manager' = [connection_params |-> cp, is_spcs_container |-> spcs]
  /\ life' = At("connect")
  /\ UNCHANGED <<inp, out, config, tool, connection, conns, cursors, dbLog,
                 cleanups, calls>>

\* a connection as connect(**params, session_parameters=...,
\* client_session_keep_alive=...) returns it
NewConn(args, via) ==
  [state |-> "open", params |-> args.params, session |-> args.session,
   keep_alive |-> args.keep_alive, verified |-> FALSE, via |-> via,
   closes |-> 0]

\* SnowflakeConnectionManager._get_persistent_connection: connect()
PersistentConnect ==
  /\ life.pc = "connect"
  /\ \/ /\ \E env \in ServiceEnvs :
             conns' = [conns EXCEPT ![InitConn] =
                         NewConn(PersistentConnectArgs(
                                   manager.is_spcs_container,
                                   manager.connection_params, env, NoSession),
                                 "init")]
        /\ life' = [life EXCEPT !.pc = "verify", !.conn = InitConn]
     \/ \* connect() raises
        /\ conns' = conns
        /\ life' = Finally("ConnectionError")
     \/ \* connect() returns no connection: the method returns None
        /\ conns' = conns
        /\ life' = At("root")
  /\ UNCHANGED <<manager, inp, out, config, tool, connection, cursors, dbLog,
                 cleanups, calls>>

\* send_initial_query on the new connection, then self.connection is set
SendInitialQuery ==
  /\ life.pc = "verify"
  /\ \/ /\ conns' = [conns EXCEPT ![life.conn].verified = TRUE]
        /\ connection' = life.conn
        /\ life' = At("root")
     \/ \* the query raises: ConnectionError leaves __init__
        /\ conns' = conns
        /\ connection' = connection
        /\ life' = Finally("ConnectionError")
  /\ UNCHANGED <<manager, inp, out, config, tool, cursors, dbLog, cleanups, calls>>

\* self.root = Root(self.connection)
MakeRoot ==
  /\ life.pc = "root"
  /\ \/ life' = [life EXCEPT !.pc = "tools", !.service = TRUE]
     \/ connection = 0 /\ life' = Finally("Exception")
  /\ UNCHANGED <<manager, inp, out, config, tool, connection, conns, cursors, dbLog,
                 cleanups, calls>>

\* the config initialize_tools hands to initialize_query_manager_tool
ToolsConfig(service_config) == NoConfig

\* initialize_tools(snowflake_service, server)
initialize_tools ==
  /\ life.pc = "tools"
  /\ \/ /\ tool' = [registered |-> TRUE, via |-> "initialize_tools",
                    config |-> ToolsConfig(config)]
        /\ life' = At("resources")
     \/ \* a tool initializer raises: the finally clause cleans up
        /\ tool' = tool
        /\ life' = Finally("Exception")
  /\ UNCHANGED <<manager, inp, out, config, connection, conns, cursors, dbLog,
                 cleanups, calls>>

\* initialize_query_manager_tool(server, connection_manager, config) called
\* with the loaded configuration by a host that registers the tool itself
initialize_query_manager_tool ==
  /\ life.pc = "tools"
  /\ tool' = [registered |-> TRUE, via |-> "direct", config |-> config]
  /\ life' = At("resources")
  /\ UNCHANGED <<manager, inp, out, config, connection, conns, cursors, dbLog,
                 cleanups, calls>>

\* initialize_resources(snowflake_service, server), then the yield
initialize_resources ==
  /\ life.pc = "resources"
  /\ \/ life' = At("serving")
     \/ life' = Finally("Exception")
  /\ UNCHANGED <<manager, inp, out, config, tool, connection, conns, cursors, dbLog,
                 cleanups, calls>>

\* the server stops once the requests in progress have ended: control
\* returns to the lifespan after the yield
Shutdown ==
  /\ life.pc = "serving"
  /\ \A c \in Calls : calls[c].pc \in {"idle", "done"}
  /\ life' = Finally("none")
  /\ UNCHANGED <<manager, inp, out, config, tool, connection, conns, cursors, dbLog,
                 cleanups, calls>>

AfterClose_propagates(error, close_raised) ==
  IF close_raised THEN "Exception" ELSE error

\* try: self.connection.close() except Exception: logger.error(...): the
\* error the lifespan ends with is the one it had before cleanup
AfterClose(error, close_raised) == error

\* SnowflakeService.cleanup -> SnowflakeConnectionManager.cleanup
cleanup ==
  /\ life.pc = "cleanup"
  /\ cleanups' = cleanups + 1
  /\ IF connection # 0
       THEN \E closed \in BOOLEAN :
              /\ conns' = [conns EXCEPT
                             ![connection].closes = @ + 1,
                             ![connection].state =
                                IF closed THEN "closed" ELSE @]
              /\ life' = [life EXCEPT
                            !.error = AfterClose(life.error, ~closed),
                            !.pc = IF AfterClose(life.error, ~closed) = "none"
                                     THEN "stopped" ELSE "failed"]
       ELSE /\ conns' = conns
            /\ life' = At(IF life.error = "none" THEN "stopped" ELSE "failed")
  /\ UNCHANGED <<manager, inp, out, config, tool, connection, cursors, dbLog, calls>>

(***************************************************************************)
(* tools/sql.py: the run_snowflake_query tool.                             *)
(***************************************************************************)
Set(c, r) == calls' = [calls EXCEPT ![c] = r]

Done(c, res) == [calls[c] EXCEPT !.pc = "done", !.result = res]

run_query_tool_check_noraise(cfg, sql, parsed) ==
  IF cfg.present
    THEN LET v == validate_sql_type(sql, parsed, cfg.allowed, cfg.disallowed)
         IN IF v.kind = "raise" THEN RawException(v.exc) ELSE NoResult
    ELSE NoResult

\* the permission check of run_query_tool: the exception it raises, or
\* NoResult when control reaches run_query
run_query_tool_check(cfg, sql, parsed) ==
  IF cfg.present
    THEN LET v == validate_sql_type(sql, parsed, cfg.allowed, cfg.disallowed)
         IN IF v.kind = "raise" THEN RawException(v.exc)
            ELSE IF ~v.value[2]
              THEN SnowflakeException("run_snowflake_query", 403,
                                      v.value[1], <<>>)
            ELSE NoResult
    ELSE NoResult

\* the dispatcher invokes the registered tool with a statement; the tool
\* checks the statement and either raises or calls run_query
run_query_tool(c) ==
  /\ life.pc = "serving"
  /\ tool.registered
  /\ calls[c].pc = "idle"
  /\ \E sql \in CallTexts : \E p \in ParserOutcomes(sql) :
       LET r == run_query_tool_check(tool.config, sql, p)
           started == [calls[c] EXCEPT !.sql = sql, !.parsed = p]
       IN IF r.kind = "none"
            THEN Set(c, [started EXCEPT !.pc = "run_query"])
            ELSE Set(c, [started EXCEPT !.pc = "done", !.result = r])
  /\ UNCHANGED <<manager, inp, out, life, config, tool, connection, conns, cursors,
                 dbLog,
                 cleanups>>

\* str(e) of an exception of the driver
DriverError(text) == <<text>>

\* str(ConnectionError(f"Connection failed: {e}")): SnowflakeException's
\* __str__ with tool "Connection" and no status code
ConnectionFailed(e) ==
  <<"Connection", " Error: An error has occurred.\n\nError Message: ",
    "Connection failed: ">> \o e \o <<" ">>

QueryError_raw(e) == RawException("ConnectionError")

\* run_query wraps every Exception of its with-block (tools/sql.py:46-51):
\* message=f"Error executing query: {e}"
QueryError(e) ==
  SnowflakeException("query_manager", 500, <<>>,
                     <<"Error executing query: ">> \o e)

(***************************************************************************)
(* core/connection.py: get_connection, entered by run_query.               *)
(***************************************************************************)
NeedsConnect_always(held) == TRUE

\* if self.connection is None
NeedsConnect(held) == held = 0

\* run_query enters get_connection: when no connection is held one is
\* opened, self.connection = connect(..., client_session_keep_alive=False).
\* The test and the assignment are one step: no other call runs between
\* them.
get_connection_enter(c) ==
  /\ calls[c].pc = "run_query"
  /\ IF NeedsConnect(connection)
       THEN \/ /\ \E env \in ServiceEnvs :
                    conns' = [conns EXCEPT ![c] =
                                NewConn(LazyConnectArgs(
                                          manager.is_spcs_container,
                                          manager.connection_params, env,
                                          get_query_tag_param),
                                        "lazy")]
               /\ connection' = c
               /\ Set(c, [calls[c] EXCEPT !.scopes = @ + 1,
                                          !.opened = @ + 1,
                                          !.pc = "gc_cursor"])
            \/ \* connect() raises: ConnectionError, wrapped by run_query
               /\ UNCHANGED <<conns, connection>>
               /\ Set(c, [Done(c, QueryError(ConnectionFailed(
                                                 DriverError("connect failed"))))
                            EXCEPT !.scopes = @ + 1])
       ELSE /\ UNCHANGED <<conns, connection>>
            /\ Set(c, [calls[c] EXCEPT !.scopes = @ + 1,
                                       !.pc = "gc_cursor"])
  /\ UNCHANGED <<manager, inp, out, life, config, tool, cursors, dbLog, cleanups>>

CursorOf_shared(c) == 1

\* cursor = ...: the cursor is a local variable of the invocation's own
\* get_connection frame
CursorOf(c) == c

\* cursor = self.connection.cursor(DictCursor); the driver refuses a cursor
\* on a closed connection
get_connection_cursor(c) ==
  /\ calls[c].pc = "gc_cursor"
  /\ \/ /\ connection # 0
        /\ conns[connection].state = "open"
        /\ cursors' = [cursors EXCEPT ![CursorOf(c)] =
                                        [conn |-> connection, closes |-> 0]]
        /\ Set(c, [calls[c] EXCEPT !.pc = "execute",
                                   !.cur = CursorOf(c),
                                   !.con = connection])
     \/ /\ cursors' = cursors
        /\ Set(c, Done(c, QueryError(ConnectionFailed(
                                       DriverError("cursor failed")))))
  /\ UNCHANGED <<manager, inp, out, life, config, tool, connection, conns, dbLog,
                 cleanups>>

\* the body of run_query's with-block: cur.execute(statement)
execute(c) ==
  /\ calls[c].pc = "execute"
  /\ dbLog' = dbLog \cup {calls[c].sql}
  /\ \E outcome \in {"ok", "error", "cancel"} :
       Set(c, [calls[c] EXCEPT
                 !.execs = @ + 1,
                 !.pc = IF outcome = "ok" THEN "fetch" ELSE "gc_exit",
                 !.pending = IF outcome = "ok" THEN "none" ELSE outcome])
  /\ UNCHANGED <<manager, inp, out, life, config, tool, connection, conns, cursors,
                 cleanups>>

\* return cur.fetchall()
fetchall(c) ==
  /\ calls[c].pc = "fetch"
  /\ \E outcome \in {"ok", "error"} :
       Set(c, [calls[c] EXCEPT
                 !.pc = "gc_exit",
                 !.pending = IF outcome = "ok" THEN "none" ELSE outcome])
  /\ UNCHANGED <<manager, inp, out, life, config, tool, connection, conns, cursors,
                 dbLog,
                 cleanups>>

ClosesCursor_on_return(pending) == pending = "none"

\* try: yield ... finally: cursor.close() runs however the body ended
ClosesCursor(pending) == TRUE

\* the scope exits: finally, then the except clauses of get_connection and
\* of run_query.  A cancellation is no Exception and passes both.
get_connection_exit(c) ==
  /\ calls[c].pc = "gc_exit"
  /\ \E close_raises \in BOOLEAN :
       LET closing == ClosesCursor(calls[c].pending)
           res == IF closing /\ close_raises
                    THEN QueryError(ConnectionFailed(
                                      DriverError("close failed")))
                  ELSE IF calls[c].pending = "none" THEN Rows
                  ELSE IF calls[c].pending = "error"
                    THEN QueryError(ConnectionFailed(
                                      DriverError("query failed")))
                  ELSE RawException("CancelledError")
       IN /\ cursors' = IF closing
                          THEN [cursors EXCEPT ![calls[c].cur].closes = @ + 1]
                          ELSE cursors
          /\ Set(c, Done(c, res))
  /\ UNCHANGED <<manager, inp, out, life, config, tool, connection, conns, dbLog,
                 cleanups>>

(***************************************************************************)
(* The server: the lifespan and the tool invocations it dispatches.        *)
(***************************************************************************)
Next ==
  \/ LifespanStart
  \/ LoadConfig
  \/ ManagerInit
  \/ PersistentConnect
  \/ SendInitialQuery
  \/ MakeRoot
  \/ initialize_tools
  \/ initialize_query_manager_tool
  \/ initialize_resources
  \/ Shutdown
  \/ cleanup
  \/ \E c \in Calls : run_query_tool(c)
  \/ \E c \in Calls : get_connection_enter(c)
  \/ \E c \in Calls : get_connection_cursor(c)
  \/ \E c \in Calls : execute(c)
  \/ \E c \in Calls : fetchall(c)
  \/ \E c \in Calls : get_connection_exit(c)

Spec == Init /\ [][Next]_vars

(***************************************************************************)
(* The server stopped while requests are in progress: the lifespan's       *)
(* finally clause runs while an invocation is still on its way through     *)
(* run_query and get_connection.                                           *)
(***************************************************************************)
Stop ==
  /\ life.pc = "serving"
  /\ \E c \in Calls : calls[c].pc \notin {"idle", "done"}
  /\ life' = Finally("none")
  /\ UNCHANGED <<manager, inp, out, config, tool, connection, conns, cursors, dbLog,
                 cleanups, calls>>

NextStop == Next \/ Stop

SpecStop == Init /\ [][NextStop]_vars

(***************************************************************************)
(* validate_sql_type called on its own: the arguments are drawn from the   *)
(* texts with the outcomes the parser has on them, and from the policies.  *)
(***************************************************************************)
\* statements of each kind, for the enumeration of all policies
AuthTexts == {sqlSelect, sqlDrop, sqlShow, sqlFoo}

ClassifyPolicies == {ScenarioPolicy, Config(<<tagUnknown>>, <<tagShow>>)}

Input(sql, p, a, d) ==
  [sql |-> sql, parsed |-> p, allowed |-> a, disallowed |-> d]

InitFn ==
  /\ \/ \E sql \in Texts : \E p \in ParserOutcomes(sql) :
          \E cfg \in ClassifyPolicies :
            inp = Input(sql, p, cfg.allowed, cfg.disallowed)
     \/ \E sql \in AuthTexts : \E p \in ParserOutcomes(sql) :
          \E a \in Lists : \E d \in Lists :
            inp = Input(sql, p, a, d)
  /\ out = NoOutput
  /\ InitService

ValidateCall ==
  /\ out.kind = "none"
  /\ out' = validate_sql_type(inp.sql, inp.parsed, inp.allowed,
                               inp.disallowed)
  /\ UNCHANGED <<manager, inp, life, config, tool, connection, conns, cursors, dbLog,
                 cleanups, calls>>

NextFn == ValidateCall

SpecFn == InitFn /\ [][NextFn]_vars

(***************************************************************************)
(* The parameter preparation of the connection manager called on its own:  *)
(* _prepare_connection_params on the supplied parameters, and the          *)
(* arguments _get_persistent_connection gives to connect().                *)
(***************************************************************************)
Authenticators ==
  { Absent, None, Str(<<>>), Str(authExternalBrowser), Str(authOAuth),
    Str(authSnowflake), Str(authMfa), Str(authOkta), Str(authOktaHttp),
    Str(authOtherUrl), Str(authCustom), Str(authOAuthUpper) }

\* parameter sets a caller may supply
SuppliedParams ==
  { [EmptyDict EXCEPT !["authenticator"] = au, !["password"] = pw,
                      !["token"] = tk, !["private_key"] = pk,
                      !["private_key_file"] = pf, !["private_key_pwd"] = pp,
                      !["passcode"] = otp, !["account"] = ac] :
      au \in Authenticators,
      pw \in {Absent, None, Str(<<"p">>)},
      tk \in {Absent, None, Str(<<"t">>)},
      pk \in {Absent, None, Str(<<>>), Str(<<"k">>)},
      pf \in {Absent, Str(<<"f">>)},
      pp \in {Absent, None, Str(<<"w">>)},
      otp \in {Absent, Str(<<"1">>)},
      ac \in {None, Str(<<"a">>)} }
  \cup {EmptyDict}

\* parameter sets supplied to a manager built inside the container runtime
ContainerSupplied ==
  {cp \in SuppliedParams :
     /\ cp # EmptyDict => cp["account"] = Str(<<"a">>)
     /\ cp["token"] = Absent
     /\ cp["private_key_file"] = Absent
     /\ cp["private_key_pwd"] = Absent
     /\ cp["passcode"] = Absent}

\* environments of the container runtime: SNOWFLAKE_HOST may be unset, and
\* the platform token changes over time
ContainerEnvs ==
  { Env(h, Str(<<"a">>), Str(t), Str(<<"d">>)) :
      h \in {None, Str(<<"h">>)}, t \in {<<"t","1">>, <<"t","2">>} }

AuthInput(cp, spcs, env) ==
  [connection_params |-> cp, is_spcs_container |-> spcs, env |-> env]

\* environments outside the container runtime:
\* SNOWFLAKE_DEFAULT_CONNECTION_NAME may be unset
ExternalEnvs ==
  { Env(None, None, Str(<<"t">>), n) : n \in {None, Str(<<"d">>)} }

\* prepared: the last result of _prepare_connection_params, first: its
\* first result, count: the calls made
NoAuthOutput ==
  [kind |-> "none", prepared |-> EmptyDict, first |-> EmptyDict, count |-> 0,
   args |-> ConnectArgs(EmptyDict, NoSession, FALSE)]

\* _prepare_connection_params is called up to this many times on a manager
MaxPrepares == 2

InitAuth ==
  /\ \/ \E cp \in SuppliedParams : \E env \in ExternalEnvs :
          inp = AuthInput(cp, FALSE, env)
     \/ \E cp \in ContainerSupplied : \E env \in ContainerEnvs :
          inp = AuthInput(cp, TRUE, env)
  /\ out = NoAuthOutput
  /\ InitService

\* manager._prepare_connection_params(), possibly again on the same manager
PrepareCall ==
  /\ out.kind \in {"none", "prepared"}
  /\ out.count < MaxPrepares
  /\ LET result == _prepare_connection_params(inp.connection_params)
     IN out' = [out EXCEPT
                  !.kind = "prepared",
                  !.count = @ + 1,
                  !.first = IF out.count = 0 THEN result ELSE @,
                  !.prepared = result]
  /\ inp' = [inp EXCEPT
               !.connection_params = StoredAfterPrepare(inp.connection_params)]
  /\ UNCHANGED <<manager, life, config, tool, connection, conns, cursors,
                 dbLog, cleanups, calls>>

\* _get_persistent_connection() up to its call of connect()
ConnectCall ==
  /\ out.kind = "none"
  /\ out' = [out EXCEPT
               !.kind = "connect",
               !.args = PersistentConnectArgs(inp.is_spcs_container,
                                              inp.connection_params,
                                              inp.env, NoSession)]
  /\ UNCHANGED <<manager, inp, life, config, tool, connection, conns, cursors,
                 dbLog, cleanups, calls>>

NextAuth ==
  \/ PrepareCall
  \/ ConnectCall

SpecAuth == InitAuth /\ [][NextAuth]_vars

(***************************************************************************)
(* config/settings.py and utils/validators.py: the permission lists of the *)
(* configuration file and the permission check on function names, each     *)
(* called on its own.  A dict is the sequence of its items in insertion    *)
(* order; an item is <<key, value>>.                                       *)
(***************************************************************************)
NoLists == [allowed |-> <<>>, disallowed |-> <<>>]

\* the inner loop of unpack_sql_statement_permissions over one dict
RECURSIVE UnpackItems(_, _)
UnpackItems(items, lists) ==
  IF items = <<>> THEN lists
  ELSE LET sql_type   == Head(items)[1]
           is_allowed == Head(items)[2]
       IN UnpackItems(Tail(items),
            IF is_allowed
              THEN [lists EXCEPT !.allowed = Append(@, lower(sql_type))]
              ELSE [lists EXCEPT !.disallowed = Append(@, lower(sql_type))])

\* the outer loop, over the list of dicts
RECURSIVE UnpackDicts(_, _)
UnpackDicts(dicts, lists) ==
  IF dicts = <<>> THEN lists
  ELSE UnpackDicts(Tail(dicts), UnpackItems(Head(dicts), lists))

unpack_sql_statement_permissions_first_only(sql_statement_permissions) ==
  IF sql_statement_permissions = <<>> THEN NoLists
  ELSE UnpackItems(Head(sql_statement_permissions), NoLists)

unpack_sql_statement_permissions(sql_statement_permissions) ==
  UnpackDicts(sql_statement_permissions, NoLists)

tagCreate == <<"c","r","e","a","t","e">>
tagAlter  == <<"a","l","t","e","r">>
pfxList   == <<"l","i","s","t">>
pfxQuery  == <<"q","u","e","r","y">>
pfxRun    == <<"r","u","n">>

\* the statement type validate_sql_permissions takes from the function name
StmtTypeOfFunction(function_name) ==
  LET func_lower == lower(function_name) \o <<>>  \* held as one sequence
  IN  IF startswith(func_lower, tagCreate) THEN tagCreate
      ELSE IF startswith(func_lower, tagDrop) THEN tagDrop
      ELSE IF startswith(func_lower, tagAlter) THEN tagAlter
      ELSE IF startswith(func_lower, pfxList) \/ startswith(func_lower, tagShow)
        THEN tagSelect
      ELSE IF startswith(func_lower, tagDescribe) THEN tagSelect
      ELSE IF startswith(func_lower, pfxQuery) \/ startswith(func_lower, pfxRun)
        THEN tagSelect
      ELSE tagUnknown

PermissionVerdict_disallow_first(stmt_type, sql_allow_list, sql_disallow_list) ==
  IF sql_allow_list = <<>> /\ sql_disallow_list = <<>> THEN FALSE
  ELSE IF InList(stmt_type, sql_disallow_list) THEN FALSE
  ELSE IF InList(tagAll, sql_allow_list) THEN TRUE
  ELSE IF InList(stmt_type, sql_allow_list) THEN TRUE
  ELSE FALSE

\* the permission checks of validate_sql_permissions, in their order
PermissionVerdict(stmt_type, sql_allow_list, sql_disallow_list) ==
  IF sql_allow_list = <<>> /\ sql_disallow_list = <<>> THEN FALSE
  ELSE IF InList(tagAll, sql_allow_list) THEN TRUE
  ELSE IF InList(stmt_type, sql_disallow_list) THEN FALSE
  ELSE IF InList(stmt_type, sql_allow_list) THEN TRUE
  ELSE IF stmt_type = tagUnknown /\ InList(tagUnknown, sql_allow_list)
    THEN TRUE
  ELSE FALSE

validate_sql_permissions(function_name, sql_allow_list, sql_disallow_list) ==
  LET stmt_type == StmtTypeOfFunction(function_name)
  IN  <<stmt_type,
        PermissionVerdict(stmt_type, sql_allow_list, sql_disallow_list)>>

\* most dicts in the sql_statement_permissions list of a configuration file
MaxEntries == 3

\* keys as a configuration file may spell them
keySelect  == <<"S","e","l","e","c","t">>
keyDROP    == <<"D","R","O","P">>
keyUnknown == <<"U","n","k","n","o","w","n">>

PermissionKeys == {keySelect, keyDROP, tagAll, keyUnknown}

\* one dict of the list: a single key, or two keys
StatementDicts ==
  { << <<k, b>> >> : k \in PermissionKeys, b \in BOOLEAN }
  \cup { << <<keySelect, TRUE>>, <<keyDROP, FALSE>> >> }

PermissionFiles == UNION {[1..n -> StatementDicts] : n \in 0..MaxEntries}

fnCreateTable == <<"c","r","e","a","t","e","_","t","a","b","l","e">>
fnDropTable   == <<"d","r","o","p","_","t","a","b","l","e">>
fnAlterTable  == <<"a","l","t","e","r","_","t","a","b","l","e">>
fnListDbs     == <<"l","i","s","t","_","d","b","s">>
fnShowViews   == <<"s","h","o","w","_","v","i","e","w","s">>
fnDescribe    == <<"d","e","s","c","r","i","b","e","_","t">>
fnQueryData   == <<"q","u","e","r","y","_","d","a","t","a">>
fnRunQuery    == <<"r","u","n","_","q","u","e","r","y">>
fnUnknownOp   == <<"u","n","k","n","o","w","n","_","o","p","e","r","a","t","i","o","n">>
fnAnyOp       == <<"a","n","y","_","o","p","e","r","a","t","i","o","n">>
fnMixedCase   == <<"D","r","o","p","_","V","i","e","w">>
fnNearPrefix  == <<"c","r","e","a","t">>
fnInner       == <<"r","e","c","r","e","a","t","e">>

FunctionNames ==
  { fnCreateTable, fnDropTable, fnAlterTable, fnListDbs, fnShowViews,
    fnDescribe, fnQueryData, fnRunQuery, fnUnknownOp, fnAnyOp, fnMixedCase,
    fnNearPrefix, fnInner, <<>> }

\* pairs of lists naming create, next to every pair over the policy tags
CreateListPairs ==
  { <<a, d>> : a \in {<<>>, <<tagCreate>>, <<tagCreate, tagSelect>>, <<tagAll>>},
               d \in {<<>>, <<tagCreate>>, <<tagDrop>>, <<tagAlter>>} }

CfgInput(call, file, fn, a, d) ==
  [call |-> call, file |-> file, function_name |-> fn,
   allowed |-> a, disallowed |-> d]

NoCfgOutput ==
  [kind |-> "none", allowed |-> <<>>, disallowed |-> <<>>,
   stmt_type |-> <<>>, valid |-> FALSE]

InitCfg ==
  /\ \/ \E file \in PermissionFiles :
          inp = CfgInput("unpack", file, <<>>, <<>>, <<>>)
     \/ \E fn \in FunctionNames :
          \/ \E a \in Lists : \E d \in Lists :
               inp = CfgInput("permissions", <<>>, fn, a, d)
          \/ \E pair \in CreateListPairs :
               inp = CfgInput("permissions", <<>>, fn, pair[1], pair[2])
  /\ out = NoCfgOutput
  /\ InitService

UnpackCall ==
  /\ inp.call = "unpack"
  /\ out.kind = "none"
  /\ LET lists == unpack_sql_statement_permissions(inp.file)
     IN out' = [out EXCEPT !.kind = "unpacked",
                           !.allowed = lists.allowed,
                           !.disallowed = lists.disallowed]
  /\ UNCHANGED <<manager, inp, life, config, tool, connection, conns, cursors,
                 dbLog, cleanups, calls>>

PermissionsCall ==
  /\ inp.call = "permissions"
  /\ out.kind = "none"
  /\ LET result == validate_sql_permissions(inp.function_name, inp.allowed,
                                            inp.disallowed)
     IN out' = [out EXCEPT !.kind = "validated",
                           !.stmt_type = result[1],
                           !.valid = result[2]]
  /\ UNCHANGED <<manager, inp, life, config, tool, connection, conns, cursors,
                 dbLog, cleanups, calls>>

NextCfg == UnpackCall \/ PermissionsCall

SpecCfg == InitCfg /\ [][NextCfg]_vars

(***************************************************************************)
(* Properties of validate_sql_type (checked under SpecFn).                 *)
(***************************************************************************)
Returned == out.kind = "return"

OutType == out.value[1]

OutValid == out.value[2]

\* C4: when "all" is in the allowed list, validate_sql_type returns allow
\* for every statement type, also for a type that is in the disallowed
\* list and for the type unknown.
C4_AllAllowsEveryType ==
  (Returned /\ InList(tagAll, inp.allowed)) => OutValid = TRUE

C4_Witness ==
  /\ Returned
  /\ InList(tagAll, inp.allowed)
  /\ InList(OutType, inp.disallowed)
  /\ OutType = tagUnknown
  /\ OutValid

\* C5: when "all" is not in the allowed list, a statement whose type is in
\* the disallowed list is denied, whether or not the type is also allowed.
C5_DisallowedDenied ==
  (Returned /\ ~InList(tagAll, inp.allowed)
     /\ InList(OutType, inp.disallowed)) => OutValid = FALSE

C5_Witness ==
  /\ Returned
  /\ ~InList(tagAll, inp.allowed)
  /\ InList(OutType, inp.disallowed)
  /\ InList(OutType, inp.allowed)
  /\ ~OutValid

\* C6: when "all" is not in the allowed list, a statement is allowed
\* exactly when its type is in the allowed list and not in the disallowed
\* list; in particular a type in neither list is denied, and so is every
\* statement when both lists are empty.
C6_AllowedIffListed ==
  (Returned /\ ~InList(tagAll, inp.allowed)) =>
     (OutValid <=> (InList(OutType, inp.allowed)
                      /\ ~InList(OutType, inp.disallowed)))

C6_Witness ==
  /\ Returned
  /\ ~InList(tagAll, inp.allowed)
  /\ inp.allowed # <<>>
  /\ inp.disallowed # <<>>
  /\ ~InList(OutType, inp.allowed)
  /\ ~InList(OutType, inp.disallowed)
  /\ OutType = tagUnknown
  /\ ~OutValid

\* C7: validate_sql_type never raises: whatever the parser did, a
\* (statement type, verdict) pair is returned, and the type is unknown when
\* the parser failed and the text starts with none of the keywords.
ParserFailed == inp.parsed.kind # "ast"

KeywordPrefixes ==
  {kwSHOW, kwDESCRIBE, kwDESC, kwUSE, kwEXPLAIN, kwGRANT, kwREVOKE, kwSET,
   kwCALL}

NoKeywordPrefix ==
  \A k \in KeywordPrefixes : ~startswith(upper(strip(inp.sql)), k)

C7_NeverRaises ==
  out.kind # "none" =>
     /\ Returned
     /\ (ParserFailed /\ NoKeywordPrefix) => OutType = tagUnknown

\* C8: the tag is the lower-cased class name when the parser's raw type is
\* neither Command nor Unknown, and otherwise the tag of the first keyword,
\* in the order SHOW, DESCRIBE, DESC, USE, EXPLAIN, GRANT, REVOKE, SET,
\* CALL, that the trimmed upper-cased text starts with, unknown when none.
KeywordOrder ==
  << <<kwSHOW, tagShow>>, <<kwDESCRIBE, tagDescribe>>,
     <<kwDESC, tagDescribe>>, <<kwUSE, tagUse>>, <<kwEXPLAIN, tagExplain>>,
     <<kwGRANT, tagGrant>>, <<kwREVOKE, tagRevoke>>, <<kwSET, tagSet>>,
     <<kwCALL, tagCall>> >>

ClassTags ==
  { <<clsSelect, tagSelect>>, <<clsDrop, tagDrop>>, <<clsShow, tagShow>>,
    <<clsDescribe, tagDescribe>>, <<clsUse, tagUse>>, <<clsSet, tagSet>>,
    <<clsGrant, tagGrant>> }

RawType == IF inp.parsed.kind = "ast" THEN inp.parsed.name ELSE clsUnknown

TrimmedUpper == upper(strip(inp.sql))

KeywordMatches ==
  {i \in 1..Len(KeywordOrder) : startswith(TrimmedUpper, KeywordOrder[i][1])}

FirstKeywordMatch ==
  CHOOSE i \in KeywordMatches : \A j \in KeywordMatches : i <= j

C8_TagComputation ==
  Returned =>
    IF RawType \notin {clsCommand, clsUnknown}
      THEN <<RawType, OutType>> \in ClassTags
      ELSE IF KeywordMatches = {}
        THEN OutType = tagUnknown
        ELSE OutType = KeywordOrder[FirstKeywordMatch][2]

\* a Command whose text is padded and in lower case, classified by keyword
C8_Witness ==
  /\ Returned
  /\ RawType = clsCommand
  /\ inp.sql # strip(inp.sql)
  /\ inp.sql # upper(inp.sql)
  /\ OutType = tagShow

(***************************************************************************)
(* Properties of the server (checked under Spec).                          *)
(***************************************************************************)
PermissionDenied(stype) ==
  SnowflakeException("run_snowflake_query", 403, stype, <<>>)

\* the statements of a text, separated by ";"
RECURSIVE RestAfterFirst(_)
RestAfterFirst(sql) ==
  IF sql = <<>> THEN <<>>
  ELSE IF Head(sql) = ";" THEN Tail(sql)
  ELSE RestAfterFirst(Tail(sql))

RECURSIVE Statements(_)
Statements(sql) ==
  IF sql = <<>> THEN {}
  ELSE {FirstStatement(sql)} \cup Statements(RestAfterFirst(sql))

\* the policy allows the statement taken on its own
AuthorizedAlone(stmt, cfg) ==
  \E p \in ParserOutcomes(stmt) :
    LET v == validate_sql_type(stmt, p, cfg.allowed, cfg.disallowed)
    IN v.kind = "return" /\ v.value[2]

\* C1: in the server started by the lifespan, with the policy
\* allowed=[select, show], disallowed=[drop] in the configuration file, a
\* DROP statement is never executed and ends in a permission-denied error
\* naming the type drop, and a SELECT statement is not denied.
C1_PolicyConsulted ==
  (tool.via = "initialize_tools" /\ config = ScenarioPolicy) =>
     /\ sqlDrop \notin dbLog
     /\ \A c \in Calls :
          /\ calls[c].sql = sqlDrop =>
               /\ calls[c].pc = "done"
               /\ calls[c].result = PermissionDenied(tagDrop)
          /\ (calls[c].sql = sqlSelect /\ calls[c].pc = "done") =>
               calls[c].result.status # 403

\* C2: a statement that validate_sql_type denies under the policy the tool
\* holds ends, in the step that checks it, in a SnowflakeException of
\* run_snowflake_query with status 403 naming the statement type; no
\* get_connection scope is entered, nothing is executed, and the connection
\* manager is left as it was.
DeniedType(cfg, sql, parsed) ==
  LET v == validate_sql_type(sql, parsed, cfg.allowed, cfg.disallowed)
  IN IF cfg.present /\ v.kind = "return" /\ ~v.value[2]
       THEN <<v.value[1]>> ELSE <<>>

C2_Step(c) ==
  LET t == DeniedType(tool.config, calls'[c].sql, calls'[c].parsed)
  IN (calls[c].pc = "idle" /\ calls'[c].pc # "idle" /\ t # <<>>) =>
       /\ calls'[c].pc = "done"
       /\ calls'[c].result = PermissionDenied(t[1])
       /\ calls'[c].scopes = 0
       /\ calls'[c].opened = 0
       /\ calls'[c].execs = 0
       /\ calls'[c].cur = 0
       /\ UNCHANGED <<connection, conns, cursors, dbLog, cleanups>>

C2_DeniedBeforeConnection == [][\A c \in Calls : C2_Step(c)]_vars

C2_Witness ==
  \E c \in Calls :
    /\ tool.config = ScenarioPolicy
    /\ calls[c].sql = sqlDrop
    /\ calls[c].pc = "done"
    /\ calls[c].result = PermissionDenied(tagDrop)
    /\ calls[c].scopes = 0
    /\ sqlDrop \notin dbLog

\* C3: when the tool holds a policy, the verdict on a text of several
\* statements is the verdict on its first statement, and no statement is
\* passed to the database that the policy would not allow on its own.
C3_NoUnauthorizedStatement ==
  tool.config.present =>
    /\ \A c \in Calls :
         calls[c].pc \notin {"idle", "done"} =>
           AuthorizedAlone(FirstStatement(calls[c].sql), tool.config)
    /\ \A sql \in dbLog :
         \A stmt \in Statements(sql) : AuthorizedAlone(stmt, tool.config)

\* C9: the cursor of a get_connection scope is closed when the scope exits
\* and at no other time, so exactly once, however the body ended; the exit
\* leaves the manager's connection and every connection's state as they
\* were, and a scope's cursor is always taken from the connection the
\* manager holds, which is open.
C9_Step(c) ==
  /\ (calls[c].pc = "gc_exit" /\ calls'[c].pc # "gc_exit") =>
       /\ calls'[c].pc = "done"
       /\ cursors[calls[c].cur].closes = 0
       /\ cursors'[calls[c].cur].closes = 1
       /\ UNCHANGED <<connection, conns>>
  /\ cursors'[c].closes # cursors[c].closes =>
       \E k \in Calls : calls[k].cur = c /\ calls[k].pc = "gc_exit"
                          /\ calls'[k].pc = "done"
  /\ (calls[c].pc = "gc_cursor" /\ calls'[c].pc = "execute") =>
       /\ connection # 0
       /\ calls'[c].con = connection
       /\ cursors'[calls'[c].cur] = [conn |-> connection, closes |-> 0]
       /\ conns[connection].state = "open"

C9_CursorClosedOnce == [][\A c \in Calls : C9_Step(c)]_vars

\* a scope left by a failing fetch has its cursor closed once, and the
\* other call then works on the same, still open, connection
C9_Witness ==
  \E c, k \in Calls :
    /\ c # k
    /\ calls[c].pc = "done"
    /\ calls[c].execs = 1
    /\ calls[c].result
         = QueryError(ConnectionFailed(DriverError("query failed")))
    /\ cursors[calls[c].cur].closes = 1
    /\ calls[k].pc = "execute"
    /\ calls[k].con = calls[c].con
    /\ connection = calls[c].con
    /\ conns[connection].state = "open"

\* C10: the manager refers to at most one connection, and a get_connection
\* call that finds a connection held opens none: it goes on to take its
\* cursor from the held connection, and a connection is opened only by a
\* call that found none.
C10_Step(c) ==
  /\ (calls[c].pc = "run_query" /\ calls'[c].pc # "run_query"
        /\ connection # 0) =>
       /\ calls'[c].pc = "gc_cursor"
       /\ calls'[c].opened = 0
       /\ UNCHANGED <<connection, conns>>
  /\ conns'[c] # conns[c] =>
       \/ calls[c].pc = "run_query" /\ connection = 0
       \/ connection = c /\ life.pc = "cleanup"
  /\ (calls[c].pc = "gc_cursor" /\ calls'[c].pc = "execute") =>
       /\ calls'[c].con = connection
       /\ UNCHANGED <<connection, conns>>

ManagerAvailable == life.pc \in {"tools", "resources", "serving"}

C11_VerifiedConnection ==
  /\ \A i \in ConnIds :
       (conns[i].via = "init" /\ ~conns[i].verified) =>
          /\ life.pc \in {"verify", "failed"}
          /\ connection # i
          /\ life.pc = "failed" => life.error = "ConnectionError"
  /\ ManagerAvailable =>
       /\ connection # 0
       /\ conns[connection].verified

\* C12: every connection the manager opened was opened with keep-alive
\* enabled, with session parameters holding the JSON text of the query tag
\* (origin, name, version major and minor), and with the parameters the
\* authentication-mode selection gives: inside the container runtime only
\* host, account, token and the authenticator oauth; outside it, for the
\* external browser login the server was started with, the supplied
\* parameters without password and private-key fields.
QueryTagText ==
  <<"{", "\"", "origin", "\"", ": ", "\"", "sf_sit", "\"", ", ",
         "\"", "name", "\"", ": ", "\"", "mcp_server_minimal", "\"", ", ",
         "\"", "version", "\"", ": ",
         "{", "\"", "major", "\"", ": ", "1", ", ",
              "\"", "minor", "\"", ": ", "0", "}", "}">>

SecretKeys == {"password", "private_key", "private_key_file", "private_key_pwd"}

ContainerKeys == {"host", "account", "token", "authenticator"}

SelectedForService(params) ==
  IF manager.is_spcs_container
    THEN /\ \A k \in ParamKeys \ ContainerKeys : params[k] = Absent
         /\ params["authenticator"] = Str(authOAuth)
    ELSE \A k \in ParamKeys :
           params[k] = IF k \in SecretKeys THEN Absent
                       ELSE manager.connection_params[k]

C12_SameEstablishment ==
  \A i \in ConnIds :
    conns[i].state # "none" =>
      /\ conns[i].keep_alive
      /\ conns[i].session.present
      /\ conns[i].session.QUERY_TAG = QueryTagText
      /\ SelectedForService(conns[i].params)

\* C13: cleanup calls close on the connection the manager holds, once, and
\* touches no connection when it holds none; whether or not close raised,
\* the lifespan ends with the error it had before cleanup and with none
\* when it had none.
C13_Step ==
  (life.pc = "cleanup" /\ life'.pc # "cleanup") =>
     /\ cleanups' = cleanups + 1
     /\ connection' = connection
     /\ \A i \in ConnIds :
          IF i = connection
            THEN /\ conns'[i].closes = conns[i].closes + 1
                 /\ conns'[i].state \in {conns[i].state, "closed"}
            ELSE conns'[i] = conns[i]
     /\ life'.error = life.error
     /\ life'.pc = IF life.error = "none" THEN "stopped" ELSE "failed"

C13_CleanupNeverRaises == [][C13_Step]_vars

\* close raised, the connection is still open, and the server stopped
\* without an error
C13_Witness ==
  /\ life.pc = "stopped"
  /\ life.error = "none"
  /\ connection # 0
  /\ conns[connection].closes = 1
  /\ conns[connection].state = "open"

\* C14: a run_query invocation that fails at connect, at cursor creation,
\* in execute or fetchall, or when the cursor is closed, ends in a
\* SnowflakeException of query_manager with status 500 whose message holds
\* the text of the failing driver call, never in the driver's exception
\* (a cancellation is no failure and passes unwrapped); execute runs at
\* most once and get_connection is entered at most once per invocation.
Wrapped(res, texts) ==
  /\ res.kind = "SnowflakeException"
  /\ res.tool = "query_manager"
  /\ res.status = 500
  /\ \E t \in texts : InList(t, res.cause)

C14_Step(c) ==
  /\ calls'[c].execs <= 1
  /\ calls'[c].scopes <= 1
  /\ (calls[c].pc = "run_query" /\ calls'[c].pc = "done") =>
       Wrapped(calls'[c].result, {"connect failed"})
  /\ (calls[c].pc = "gc_cursor" /\ calls'[c].pc = "done") =>
       Wrapped(calls'[c].result, {"cursor failed"})
  /\ (calls[c].pc = "gc_exit" /\ calls'[c].pc = "done") =>
       CASE calls[c].pending = "error" ->
              Wrapped(calls'[c].result, {"query failed", "close failed"})
         [] calls[c].pending = "none" ->
              \/ calls'[c].result = Rows
              \/ Wrapped(calls'[c].result, {"close failed"})
         [] OTHER ->
              \/ calls'[c].result.kind = "CancelledError"
              \/ Wrapped(calls'[c].result, {"close failed"})
  /\ (calls[c].pc # "done" /\ calls'[c].pc = "done"
        /\ calls'[c].result.status = 500) => calls'[c].scopes = 1

C14_UniformError == [][\A c \in Calls : C14_Step(c)]_vars

\* one call failed when it asked for its cursor, the other in its query
C14_Witness ==
  \E c, k \in Calls :
    /\ calls[c].pc = "done"
    /\ calls[c].execs = 0
    /\ calls[c].scopes = 1
    /\ Wrapped(calls[c].result, {"cursor failed"})
    /\ calls[k].pc = "done"
    /\ calls[k].execs = 1
    /\ Wrapped(calls[k].result, {"query failed"})

(***************************************************************************)
(* Properties of the parameter preparation (checked under SpecAuth).       *)
(***************************************************************************)
Prepared == out.kind = "prepared"

Supplied == inp.connection_params

\* a supplied value as it is handed on: a None entry is left out
Kept(v) == IF v = None THEN Absent ELSE v

PrivateKeyFields == {"private_key", "private_key_file", "private_key_pwd"}

\* C15: inside the container runtime the parameters given to connect at
\* construction are host and account of the environment (left out when
\* unset), the token the platform holds at that moment and the
\* authenticator oauth, and nothing else: they do not depend on the
\* supplied connection_params.
C15_ContainerParams ==
  (out.kind = "connect" /\ inp.is_spcs_container) =>
     \A k \in ParamKeys :
       out.args.params[k] =
         IF k = "authenticator" THEN Str(authOAuth)
         ELSE IF k = "token" THEN inp.env.token
         ELSE IF k = "host" THEN Kept(inp.env.host)
         ELSE IF k = "account" THEN Kept(inp.env.account)
         ELSE Absent

C15_Witness ==
  /\ out.kind = "connect"
  /\ inp.is_spcs_container
  /\ Supplied["authenticator"] = Str(authExternalBrowser)
  /\ Supplied["password"] = Str(<<"p">>)
  /\ Supplied["private_key"] = Str(<<"k">>)
  /\ inp.env.host = None
  /\ out.args.params["token"] = Str(<<"t","2">>)
  /\ out.args.params["password"] = Absent

\* C16: with the authenticator externalbrowser the prepared parameters hold
\* none of password, private_key, private_key_file, private_key_pwd, and
\* every other supplied parameter that is not None, the authenticator
\* included, with its value.
C16_ExternalBrowser ==
  (Prepared /\ Supplied["authenticator"] = Str(authExternalBrowser)) =>
     \A k \in ParamKeys :
       out.prepared[k] = IF k \in SecretKeys THEN Absent
                         ELSE Kept(Supplied[k])

C16_Witness ==
  /\ Prepared
  /\ Supplied["authenticator"] = Str(authExternalBrowser)
  /\ Supplied["password"] = Str(<<"p">>)
  /\ Supplied["private_key"] = Str(<<"k">>)
  /\ Supplied["private_key_pwd"] = Str(<<"w">>)
  /\ Supplied["passcode"] = Str(<<"1">>)
  /\ out.prepared["passcode"] = Str(<<"1">>)
  /\ out.prepared["private_key_pwd"] = Absent

\* C17: with the authenticator oauth, a password and no token (absent or
\* None), the prepared parameters hold the password's value as token, no
\* password, no private-key field, and the authenticator oauth.
C17_OAuthPasswordAsToken ==
  (Prepared /\ Supplied["authenticator"] = Str(authOAuth)
     /\ Supplied["password"].tag = "str"
     /\ Supplied["token"] \in {Absent, None}) =>
       /\ out.prepared["token"] = Supplied["password"]
       /\ out.prepared["password"] = Absent
       /\ \A k \in PrivateKeyFields : out.prepared[k] = Absent
       /\ out.prepared["authenticator"] = Str(authOAuth)

C17_Witness ==
  /\ Prepared
  /\ Supplied["authenticator"] = Str(authOAuth)
  /\ Supplied["password"] = Str(<<"p">>)
  /\ Supplied["token"] = None
  /\ Supplied["private_key"] = Str(<<"k">>)
  /\ out.prepared["token"] = Str(<<"p">>)

C19_OktaKeepsPassword ==
  (Prepared /\ Supplied["authenticator"] = Str(authOkta)) =>
     /\ out.prepared["password"] = Kept(Supplied["password"])
     /\ out.prepared["authenticator"] = Str(authOkta)
     /\ \A k \in PrivateKeyFields : out.prepared[k] = Absent

\* C20: with the authenticator username_password_mfa, or a value that is
\* not externalbrowser, oauth, snowflake or an Okta URL, the prepared
\* parameters are the supplied ones without the None entries.
UnrecognizedAuthenticators ==
  { Str(authMfa), Str(authOktaHttp), Str(authOtherUrl), Str(authCustom),
    Str(authOAuthUpper) }

C20_PassThrough ==
  (Prepared /\ Supplied["authenticator"] \in UnrecognizedAuthenticators) =>
     \A k \in ParamKeys : out.prepared[k] = Kept(Supplied[k])

\* C21: whatever the authenticator, the prepared parameters hold no None
\* value; a supplied value that is not None is returned unchanged under
\* every key no branch strips or rewrites; and every returned value is the
\* supplied value of its key, the password moved to token, or the
\* authenticator snowflake set by the key-pair branch.
RewrittenKeys == SecretKeys \cup {"token", "authenticator"}

NothingSupplied == \A k \in ParamKeys : Supplied[k] \in {Absent, None}

C25_DefaultConnection ==
  (out.kind = "connect" /\ ~inp.is_spcs_container) =>
     IF NothingSupplied
       THEN \A k \in ParamKeys :
              out.args.params[k] =
                IF k # "connection_name" THEN Absent
                ELSE IF inp.env.default_name = None
                  THEN Str(<<"d","e","f","a","u","l","t">>)
                  ELSE inp.env.default_name
       ELSE /\ out.args.params["connection_name"] = Absent
            /\ \E k \in ParamKeys : out.args.params[k] # Absent

\* only a None account is supplied, and the variable is unset
C25_Witness ==
  /\ out.kind = "connect"
  /\ ~inp.is_spcs_container
  /\ Supplied["account"] = None
  /\ NothingSupplied
  /\ inp.env.default_name = None
  /\ out.args.params["connection_name"] = Str(<<"d","e","f","a","u","l","t">>)

\* C26: a call of _prepare_connection_params leaves the manager's stored
\* connection_params as they were, and a second call on the same manager
\* returns what the first returned.
C26_Step ==
  /\ inp'.connection_params = inp.connection_params
  /\ (out'.kind = "prepared" /\ out'.count = 2) => out'.prepared = out'.first

C26_PrepareIsPure == [][C26_Step]_vars

\* two calls on a manager whose oauth branch moves the password to token
C26_Witness ==
  /\ Prepared
  /\ out.count = 2
  /\ Supplied["authenticator"] = Str(authOAuth)
  /\ Supplied["password"] = Str(<<"p">>)
  /\ Supplied["token"] = Absent
  /\ Supplied["private_key"] = Str(<<"k">>)
  /\ out.prepared["token"] = Str(<<"p">>)
  /\ out.prepared = out.first

(***************************************************************************)
(* Properties of the permission lists and of validate_sql_permissions.     *)
(***************************************************************************)
SetOf(l) == {l[i] : i \in 1..Len(l)}

\* every item of every dict of a permissions list
ItemsOf(file) ==
  {file[i][j] : <<i, j>> \in
     {<<i, j>> \in (1..Len(file)) \X (1..2) : j <= Len(file[i])}}

Reordered(file, perm) == [i \in 1..Len(file) |-> file[perm[i]]]

VerdictTags == {tagAll, tagSelect, tagDrop, tagUnknown, tagShow}

\* C22: unpack_sql_statement_permissions puts the lower-cased name of every
\* true entry into allowed and of every false entry into disallowed, and
\* for every reordering of the entries the two sets, and with them every
\* authorization verdict, are the same.
C22_OrderIrrelevant ==
  out.kind = "unpacked" =>
    /\ SetOf(out.allowed) = {lower(it[1]) : it \in {x \in ItemsOf(inp.file) : x[2]}}
    /\ SetOf(out.disallowed) =
         {lower(it[1]) : it \in {x \in ItemsOf(inp.file) : ~x[2]}}
    /\ \A perm \in Permutations(1..Len(inp.file)) :
         LET other == unpack_sql_statement_permissions(Reordered(inp.file, perm))
         IN /\ SetOf(other.allowed) = SetOf(out.allowed)
            /\ SetOf(other.disallowed) = SetOf(out.disallowed)
            /\ \A t \in VerdictTags :
                 Authorize(t, other.allowed, other.disallowed)
                   = Authorize(t, out.allowed, out.disallowed)

\* a file whose entries are spelt in mixed case, a false entry first
C22_Witness ==
  /\ out.kind = "unpacked"
  /\ inp.file = << << <<keyDROP, FALSE>> >>, << <<keySelect, TRUE>> >>,
                   << <<keyUnknown, TRUE>> >> >>
  /\ out.allowed = <<tagSelect, tagUnknown>>
  /\ out.disallowed = <<tagDrop>>

\* the statement type each function name stands for
C23_Expected ==
  { <<fnCreateTable, tagCreate>>, <<fnDropTable, tagDrop>>,
    <<fnAlterTable, tagAlter>>, <<fnListDbs, tagSelect>>,
    <<fnShowViews, tagSelect>>, <<fnDescribe, tagSelect>>,
    <<fnQueryData, tagSelect>>, <<fnRunQuery, tagSelect>>,
    <<fnUnknownOp, tagUnknown>>, <<fnAnyOp, tagUnknown>>,
    <<fnMixedCase, tagDrop>>, <<fnNearPrefix, tagUnknown>>,
    <<fnInner, tagUnknown>>, <<<<>>, tagUnknown>> }

\* C23: validate_sql_permissions takes the statement type from the prefix
\* of the function name and returns the verdict the precedence chain of
\* validate_sql_type gives for that type and the same two lists.
C23_SameVerdict ==
  out.kind = "validated" =>
    /\ <<inp.function_name, out.stmt_type>> \in C23_Expected
    /\ out.valid = Authorize(out.stmt_type, inp.allowed, inp.disallowed)

\* all allowed and the type disallowed: the escape hatch wins in both
C23_Witness ==
  /\ out.kind = "validated"
  /\ inp.function_name = fnMixedCase
  /\ inp.allowed = <<tagSelect, tagAll>>
  /\ inp.disallowed = <<tagDrop>>
  /\ out.stmt_type = tagDrop
  /\ out.valid

(***************************************************************************)
(* Properties of concurrent invocations and of the lifespan.               *)
(***************************************************************************)
InScope(c) == calls[c].pc \in {"execute", "fetch", "gc_exit"}

\* C24: however run_query invocations interleave on one manager, the
\* invocations inside their get_connection scopes hold pairwise distinct
\* cursors, all taken from the one connection the manager holds; a cursor
\* is open while its invocation is in its scope, is closed by the exit of
\* that invocation's scope and by no other step, and has been closed
\* exactly once when the invocation is done.
C24_OwnCursor ==
  \A c \in Calls :
    /\ InScope(c) =>
         /\ calls[c].cur # 0
         /\ cursors[calls[c].cur].closes = 0
         /\ cursors[calls[c].cur].conn = connection
         /\ calls[c].con = connection
         /\ \A k \in Calls : (k # c /\ InScope(k)) => calls[k].cur # calls[c].cur
    /\ (calls[c].pc = "done" /\ calls[c].cur # 0) =>
         cursors[calls[c].cur].closes = 1

C24_Step ==
  \A k \in Calls :
    cursors'[k].closes # cursors[k].closes =>
      /\ cursors'[k].closes = cursors[k].closes + 1
      /\ \E c \in Calls : /\ calls[c].cur = k
                          /\ calls[c].pc = "gc_exit"
                          /\ calls'[c].pc = "done"
                          /\ \A d \in Calls \ {c} : calls'[d] = calls[d]

C27_ConfigBeforeConnect ==
  /\ life.error = "ConfigurationError" =>
       /\ life.pc = "failed"
       /\ manager = NoManager
       /\ connection = 0
       /\ \A i \in ConnIds : conns[i].state = "none"
       /\ ~tool.registered
       /\ ~life.service
       /\ cleanups = 0
  /\ (manager # NoManager \/ \E i \in ConnIds : conns[i].state # "none")
       => config.present
  /\ (life.pc \in {"start", "config"}) => manager = NoManager

\* the configuration file was given but could not be loaded
C27_Witness ==
  /\ life.pc = "failed"
  /\ life.error = "ConfigurationError"
  /\ ~config.present
  /\ manager = NoManager

\* C28: a SnowflakeService that was constructed is cleaned up exactly once
\* when the lifespan ends, on a normal stop and when tool or resource
\* initialization raised; when construction failed cleanup is not called
\* and the lifespan ends with the error.
C28_CleanupOnce ==
  /\ cleanups <= 1
  /\ cleanups = 1 => life.service
  /\ life.pc \in {"stopped", "failed"} =>
       cleanups = (IF life.service THEN 1 ELSE 0)
  /\ life.pc = "stopped" => life.service /\ life.error = "none"
  /\ life.pc = "failed" => life.error # "none"

\* tool initialization raised after the service was constructed
C28_Witness ==
  /\ life.pc = "failed"
  /\ life.service
  /\ life.error = "Exception"
  /\ ~tool.registered
  /\ cleanups = 1
  /\ connection # 0
  /\ conns[connection].closes = 1

\* C29: get_connection yields no connection on which cleanup has called
\* close().
C29_Step(c) ==
  (calls[c].pc = "gc_cursor" /\ calls'[c].pc = "execute") =>
    conns[calls'[c].con].closes = 0

C29_NoYieldAfterClose == [][\A c \in Calls : C29_Step(c)]_vars

\* C30: when construction ends in a ConnectionError no connection is left
\* open.
C30_NoOpenConnectionAfterFailure ==
  (life.pc = "failed" /\ life.error = "ConnectionError") =>
    \A i \in ConnIds : conns[i].state # "open"

====
